---- MODULE Spec2Model ----
(***************************************************************************)
(* Model of the hardened Browserless PGN server (src/server.js, 104-354):  *)
(* the concurrency gate (acquireSlot / releaseSlot), the shared browser    *)
(* connection manager (connectBrowser and its "disconnected" handler) and  *)
(* the per-request pipeline getPgn.                                        *)
(*                                                                         *)
(* Node runs the program on one thread: code between two awaits is atomic. *)
(* Every action below is one such run-to-completion segment of a request,  *)
(* or one event of the remote browser (a connection dying, its             *)
(* "disconnected" notification being delivered).  The outcome of every     *)
(* awaited puppeteer call is chosen by the environment.                    *)
(***************************************************************************)
EXTENDS Integers, Sequences, FiniteSets, TLC

\* ---------------------------------------------------------------- bounds
\* number of POST /fetch-pgn requests in flight at once (an answered request
\* frees its number for the next arrival)
NumReqs == 2
\* the same, in the runs whose browser connection stays up (SpecGate)
NumGateReqs == 4
\* the same, in the runs under fairness (SpecFair)
NumFairReqs == 4
\* the same, in the runs with a full gate and a dying connection (SpecQueue)
NumQueueReqs == 3
\* number of connections puppeteer.connect may establish in one run
MaxConns == 3
\* number of connections that may die in one run
MaxCloses == 1
\* number of elements of a document that the selectors of extractMovesFromPage
\* match
MaxNodes == 2
\* length of the move list handed to the PGN builder
MaxMoves == 4

\* ------------------------------------------------------ program constants
\* src/server.js:120, the value of env MAX_CONCURRENT_PAGES (default "3")
MAX_CONCURRENT_PAGES == 2
\* src/server.js:151, default parameter of connectBrowser(retries = 3, ...)
retries == 3

Max(x, y) == IF x >= y THEN x ELSE y

Reqs == 1..Max(Max(NumReqs, NumQueueReqs), Max(NumGateReqs, NumFairReqs))
Conns == 1..MaxConns
\* the value null of `browser` and `b`
NULL == 0
\* no waiter (releaseSlot found the queue empty)
NoReq == NULL
\* no answer written yet
NoResponse == NULL

\* the steps of one request, in the order the pipeline is meant to take them
StepOrder == <<"connect", "acquire", "open", "navigate", "extract", "assemble",
               "close", "release">>

VARIABLES
  current,      \* let current (granted, unreleased slots)
  queue,        \* const queue: the resolve callbacks of suspended acquireSlot calls
  browser,      \* let browser: NULL or the connection it refers to
  connecting,   \* let connecting
  conn,         \* per connection: "none" (not created), "live" (isConnected() is
                \* true), "closed" (isConnected() is false, "disconnected" not yet
                \* delivered), "notified" (the handler has run)
  pc,           \* per request: the await it is suspended at
  attempt,      \* per request: the loop variable of connectBrowser
  b,            \* per request: const b = browser, the connection of its page
  page,         \* per request: "null", "open", "closed", "closeFailed"
  outcome,      \* per request: how getPgn ended
  response,     \* per request: the HTTP status the handler has answered with
  dom,          \* the document of a page, as its selectors see it
  moves,        \* const moves: the result of extractMovesFromPage
  pgn,          \* let pgn: the notation built from moves, as a list of pieces
  stage,        \* where lines 283-299 stand for that page: "none" (no page),
                \* "loaded", "extracted", "null" or "pgn" (what getPgn returns)
  \* -------- history variables (observations, read by no action's guard)
  trace,        \* per request: the steps it has performed, in order
  releases,     \* per request: number of releaseSlot calls it has made
  attempts,     \* per request: number of puppeteer.connect calls it has made
  gotos,        \* per request: number of page.goto calls it has made
  waitOrder,    \* the requests suspended in acquireSlot, in the order they called
  sawExhaust    \* per request: it was waiting on `connecting` when a connector
                \* exhausted its retries

vars == <<current, queue, browser, connecting, conn, pc, attempt, b, page,
          outcome, response, dom, moves, pgn, stage,
          trace, releases, attempts, gotos, waitOrder, sawExhaust>>

gateVars == <<current, queue>>
connVars == <<browser, connecting, conn>>
histVars == <<trace, releases, attempts, gotos, waitOrder, sawExhaust>>
\* the variables of one page's extraction and notation, lines 283-299
pageVars == <<dom, moves, pgn, stage>>

\* ------------------------------------------------------------------ state
InitServer ==
  /\ current = 0
  /\ queue = <<>>
  /\ browser = NULL
  /\ connecting = FALSE
  /\ conn = [c \in Conns |-> "none"]
  /\ pc = [r \in Reqs |-> "idle"]
  /\ attempt = [r \in Reqs |-> 0]
  /\ b = [r \in Reqs |-> NULL]
  /\ page = [r \in Reqs |-> "null"]
  /\ outcome = [r \in Reqs |-> "none"]
  /\ trace = [r \in Reqs |-> <<>>]
  /\ releases = [r \in Reqs |-> 0]
  /\ attempts = [r \in Reqs |-> 0]
  /\ waitOrder = <<>>
  /\ sawExhaust = [r \in Reqs |-> FALSE]
  /\ response = [r \in Reqs |-> NoResponse]
  /\ gotos = [r \in Reqs |-> 0]

Init ==
  /\ InitServer
  /\ dom = <<>>
  /\ moves = <<>>
  /\ pgn = <<>>
  /\ stage = "none"

\* ------------------------------------------------------- concurrency gate
\* acquireSlot, line 132: the test that grants at once
HasCapacity_offByOne == current <= MAX_CONCURRENT_PAGES
HasCapacity == current < MAX_CONCURRENT_PAGES

\* acquireSlot(): the gate after the call by r, and whether r was resolved
acquireSlot(r) ==
  IF HasCapacity
    THEN [cur |-> current + 1, q |-> queue, granted |-> TRUE]
    ELSE [cur |-> current, q |-> Append(queue, r), granted |-> FALSE]

\* releaseSlot(): the gate after the call, and the waiter it resolved
releaseSlot_lifo ==
  LET c1 == Max(0, current - 1) IN
  IF Len(queue) > 0
    THEN [cur |-> c1 + 1, q |-> SubSeq(queue, 1, Len(queue) - 1),
          next |-> queue[Len(queue)]]
    ELSE [cur |-> c1, q |-> queue, next |-> NoReq]
releaseSlot_handOverUncounted ==
  LET c1 == Max(0, current - 1) IN
  IF Len(queue) > 0
    THEN [cur |-> c1, q |-> Tail(queue), next |-> Head(queue)]
    ELSE [cur |-> c1, q |-> queue, next |-> NoReq]
releaseSlot_noDecrement ==
  IF Len(queue) > 0
    THEN [cur |-> current + 1, q |-> Tail(queue), next |-> Head(queue)]
    ELSE [cur |-> Max(0, current - 1), q |-> queue, next |-> NoReq]
releaseSlot ==
  LET c1 == Max(0, current - 1) IN
  IF Len(queue) > 0
    THEN [cur |-> c1 + 1, q |-> Tail(queue), next |-> Head(queue)]
    ELSE [cur |-> c1, q |-> queue, next |-> NoReq]

\* ---------------------------------------------------- connection manager
\* browser && browser.isConnected && browser.isConnected(), lines 152 and 156
BrowserConnected == browser # NULL /\ conn[browser] = "live"

\* connectBrowser up to its first await: "return" (line 152), "wait" (line 155)
\* or "connect" (line 158)
connectBrowserEntry_ignoreConnecting ==
  IF BrowserConnected THEN "return" ELSE "connect"
connectBrowserEntry ==
  IF BrowserConnected THEN "return"
  ELSE IF connecting THEN "wait"
  ELSE "connect"

\* connectBrowser after a pass of the polling loop that found connecting false:
\* "return" (line 156) or "connect" (fall through to line 158)
afterWait_throwToWaiters ==
  IF BrowserConnected THEN "return" ELSE "throw"
afterWait ==
  IF BrowserConnected THEN "return" ELSE "connect"

\* the catch block, line 177: whether another attempt follows
RetryAgain_oneShort(a) == a < retries - 1
RetryAgain(a) == a < retries

\* the "disconnected" handler, line 172: the new value of browser
disconnectedHandler_keeps == browser
disconnectedHandler == NULL


\* ------------------------------------------------------------------ getPgn
\* line 256: /^https?:\/\//i.test(url), for the kinds of url the model draws
UrlTest(u) == u = "valid"

\* the catch block of a rejected page.goto: after the first one (waitUntil
\* "networkidle2", line 260) a second goto is tried, after the second one
\* (waitUntil "load", line 265) "Navigation failed: ..." is thrown
gotoCatch_noRetry(waitUntil) == "throw"
gotoCatch(waitUntil) == IF waitUntil = "networkidle2" THEN "retry" ELSE "throw"

\* ----------------------------------------------------- the request handler
\* whether getPgn ended by a throw, and not by a return
Thrown(out) == out \notin {"pgn", "null"}

\* line 326: (err.message || "").toLowerCase().includes("navigation failed").
\* Only the error built at line 266 carries these words; the errors of
\* puppeteer.connect, of the url test and of the page calls do not.
IsNavigationFailed(out) == out = "navigationFailed"

\* lines 320-329: the status the handler answers with when getPgn ended as `out`
Classify(out) ==
  IF Thrown(out)
    THEN IF IsNavigationFailed(out) THEN 502 ELSE 500
    ELSE IF out = "null" THEN 404 ELSE 200

\* the finally block, lines 300-307: what it does, in order, for a page p
finallyBlock_releaseInsideIf(p) ==
  IF p # "null" THEN <<"close", "release">> ELSE <<>>
finallyBlock_releaseFirst(p) ==
  IF p # "null" THEN <<"release", "close">> ELSE <<"release">>
finallyBlock(p) ==
  IF p # "null" THEN <<"close", "release">> ELSE <<"release">>

\* the catch of the finally block, lines 303-305: how getPgn ends when
\* page.close() has rejected and getPgn was ending as `out`.  The error is
\* logged and not rethrown.
closeCatch_rethrow(out) == "closeError"
closeCatch(out) == out

\* the part of the finally block run before page.close() is awaited, and after
RECURSIVE BeforeClose(_)
BeforeClose(s) ==
  IF s = <<>> \/ Head(s) = "close" THEN <<>> ELSE <<Head(s)>> \o BeforeClose(Tail(s))
RECURSIVE AfterClose(_)
AfterClose(s) ==
  IF s = <<>> THEN <<>>
  ELSE IF Head(s) = "close" THEN Tail(s) ELSE AfterClose(Tail(s))
Has(s, x) == \E i \in 1..Len(s) : s[i] = x
Without(s, x) == SelectSeq(s, LAMBDA y : y # x)

\* request r runs the steps `todo` of its finally block (a releaseSlot call if
\* "release" is among them) and is then suspended at, or finished with, `to`
RunFinally(r, todo, to, steps) ==
  LET rel == Has(todo, "release")
      g == IF rel THEN releaseSlot ELSE [cur |-> current, q |-> queue, next |-> NoReq]
  IN /\ current' = g.cur
     /\ queue' = g.q
     /\ pc' = [x \in Reqs |-> IF x = r THEN to
                              ELSE IF x = g.next THEN "granted" ELSE pc[x]]
     /\ releases' = [releases EXCEPT ![r] = @ + (IF rel THEN 1 ELSE 0)]
     /\ waitOrder' = Without(waitOrder, g.next)
     /\ trace' = [x \in Reqs |->
                    IF x = r THEN trace[x] \o steps
                                  \o (IF rel THEN <<"release">> ELSE <<>>)
                    ELSE IF x = g.next THEN Append(trace[x], "acquire")
                    ELSE trace[x]]

\* getPgn leaves its try block (a return or a throw) with result `out`
Exit(r, out, steps) ==
  LET plan == finallyBlock(page[r]) IN
  /\ outcome' = [outcome EXCEPT ![r] = out]
  /\ RunFinally(r, BeforeClose(plan),
                IF Has(plan, "close") THEN "closing" ELSE "done", steps)

\* POST /fetch-pgn with a line 320 -> getPgn line 243 -> connectBrowser up
\* to its first await
Start(r) ==
  /\ pc[r] = "idle"
  /\ \A x \in Reqs : x < r => pc[x] # "idle"
  /\ LET e == connectBrowserEntry IN
     /\ pc' = [pc EXCEPT ![r] = CASE e = "return" -> "connected"
                                  [] e = "wait" -> "waitConn"
                                  [] OTHER -> "connectAttempt"]
     /\ connecting' = IF e = "connect" THEN TRUE ELSE connecting
     /\ attempt' = [attempt EXCEPT ![r] = IF e = "connect" THEN 1 ELSE @]
     /\ attempts' = [attempts EXCEPT ![r] = IF e = "connect" THEN 1 ELSE @]
     /\ trace' = [trace EXCEPT ![r] = IF e = "return" THEN <<"connect">> ELSE @]
  /\ UNCHANGED <<gateVars, browser, conn, b, page, outcome,
                 releases, waitOrder, sawExhaust>>
  /\ UNCHANGED <<response, gotos, pageVars>>

\* the 200 ms timer of the polling loop fires, line 155, then lines 156-158
PollTimer(r) ==
  /\ pc[r] = "waitConn"
  /\ IF connecting
       THEN UNCHANGED <<pc, connecting, attempt, attempts, trace, outcome>>
       ELSE LET e == afterWait IN
            /\ pc' = [pc EXCEPT ![r] = CASE e = "return" -> "connected"
                                         [] e = "throw" -> "done"
                                         [] OTHER -> "connectAttempt"]
            /\ connecting' = (e = "connect")
            /\ attempt' = [attempt EXCEPT ![r] = IF e = "connect" THEN 1 ELSE @]
            /\ attempts' = [attempts EXCEPT ![r] = IF e = "connect" THEN 1 ELSE @]
            /\ trace' = [trace EXCEPT ![r] = IF e = "return" THEN <<"connect">> ELSE @]
            /\ outcome' = [outcome EXCEPT ![r] = IF e = "throw" THEN "connectError" ELSE @]
  /\ UNCHANGED <<gateVars, browser, conn, b, page,
                 releases, waitOrder, sawExhaust>>
  /\ UNCHANGED <<response, gotos, pageVars>>

\* puppeteer.connect resolves, lines 162-174: a new connection, its handler
\* registered
ConnectOk(r) ==
  /\ pc[r] = "connectAttempt"
  /\ \E c \in Conns :
       /\ conn[c] = "none"
       /\ \A d \in Conns : d < c => conn[d] # "none"
       /\ conn' = [conn EXCEPT ![c] = "live"]
       /\ browser' = c
  /\ connecting' = FALSE
  /\ pc' = [pc EXCEPT ![r] = "connected"]
  /\ trace' = [trace EXCEPT ![r] = <<"connect">>]
  /\ attempt' = [attempt EXCEPT ![r] = 0]
  /\ attempts' = [attempts EXCEPT ![r] = 0]
  /\ UNCHANGED <<gateVars, b, page, outcome, releases, waitOrder, sawExhaust>>
  /\ UNCHANGED <<response, gotos, pageVars>>

\* puppeteer.connect rejects, lines 175-184
ConnectFail(r) ==
  /\ pc[r] = "connectAttempt"
  /\ IF RetryAgain(attempt[r])
       THEN /\ pc' = [pc EXCEPT ![r] = "backoff"]
            /\ UNCHANGED <<connecting, outcome, sawExhaust>>
       ELSE /\ connecting' = FALSE
            /\ pc' = [pc EXCEPT ![r] = "done"]
            /\ outcome' = [outcome EXCEPT ![r] = "connectError"]
            /\ sawExhaust' = [x \in Reqs |-> sawExhaust[x] \/ pc[x] = "waitConn"]
  /\ UNCHANGED <<gateVars, browser, conn, attempt, b, page, trace,
                 releases, attempts, waitOrder>>
  /\ UNCHANGED <<response, gotos, pageVars>>

\* the backoff timer fires, line 178, and the loop starts its next attempt
BackoffTimer(r) ==
  /\ pc[r] = "backoff"
  /\ attempt' = [attempt EXCEPT ![r] = @ + 1]
  /\ attempts' = [attempts EXCEPT ![r] = @ + 1]
  /\ pc' = [pc EXCEPT ![r] = "connectAttempt"]
  /\ UNCHANGED <<gateVars, connVars, b, page, outcome, trace, releases,
                 waitOrder, sawExhaust>>
  /\ UNCHANGED <<response, gotos, pageVars>>

\* await connectBrowser() resumes, line 244: acquireSlot()
Acquire(r) ==
  /\ pc[r] = "connected"
  /\ LET g == acquireSlot(r) IN
     /\ current' = g.cur
     /\ queue' = g.q
     /\ pc' = [pc EXCEPT ![r] = IF g.granted THEN "granted" ELSE "waitSlot"]
     /\ trace' = [trace EXCEPT ![r] = IF g.granted THEN Append(@, "acquire") ELSE @]
     /\ waitOrder' = IF g.granted THEN waitOrder ELSE Append(waitOrder, r)
  /\ sawExhaust' = [sawExhaust EXCEPT ![r] = FALSE]
  /\ UNCHANGED <<connVars, attempt, b, page, outcome, releases, attempts>>
  /\ UNCHANGED <<response, gotos, pageVars>>

\* request r goes on inside its try block: suspended at `to`, steps `steps` done
Stay(r, to, steps) ==
  /\ pc' = [pc EXCEPT ![r] = to]
  /\ trace' = [trace EXCEPT ![r] = @ \o steps]
  /\ UNCHANGED <<gateVars, outcome, releases, waitOrder>>

\* await acquireSlot() resumes, lines 245-249: b = browser; b.newPage()
OpenPage(r) ==
  /\ pc[r] = "granted"
  /\ b' = [b EXCEPT ![r] = browser]
  /\ IF browser = NULL
       THEN Exit(r, "nullBrowser", <<>>)       \* TypeError: b is null
       ELSE Stay(r, "newPage", <<>>)
  /\ UNCHANGED <<connVars, attempt, page, attempts, sawExhaust>>
  /\ UNCHANGED <<response, gotos, pageVars>>

\* an awaited call on the page of r can resolve only over a live connection
Usable(r) == conn[b[r]] = "live"

\* b.newPage() settles, line 249: it resolves (ok) or rejects
NewPageDone(r, ok) ==
  /\ pc[r] = "newPage"
  /\ ok => Usable(r)
  /\ IF ok THEN /\ page' = [page EXCEPT ![r] = "open"]
                /\ Stay(r, "setup", <<"open">>)
                /\ UNCHANGED b
           ELSE /\ Exit(r, "newPageError", <<>>)
                /\ b' = [b EXCEPT ![r] = NULL]
                /\ UNCHANGED page
  /\ UNCHANGED <<connVars, attempt, attempts, sawExhaust>>
  /\ UNCHANGED <<response, gotos, pageVars>>

\* setupPageOptimizations settles, lines 250-252; the url test, line 256; the
\* first page.goto is issued, line 259.  The url is read nowhere else, so the
\* model draws it here.
SetupDone(r, ok, u) ==
  /\ pc[r] = "setup"
  /\ ok => Usable(r)
  /\ IF ~ok THEN Exit(r, "setupError", <<>>) /\ UNCHANGED gotos
     ELSE IF ~UrlTest(u) THEN Exit(r, "invalidUrl", <<>>) /\ UNCHANGED gotos
     ELSE /\ Stay(r, "goto1", <<"navigate">>)
          /\ gotos' = [gotos EXCEPT ![r] = 1]
  /\ UNCHANGED <<connVars, attempt, b, page, attempts, sawExhaust>>
  /\ UNCHANGED <<response, pageVars>>

\* a page.goto of r has rejected: the catch blocks, lines 260-267
GotoRejected(r, waitUntil) ==
  IF gotoCatch(waitUntil) = "retry"
    THEN /\ Stay(r, "goto2", <<>>)
         /\ gotos' = [gotos EXCEPT ![r] = @ + 1]
    ELSE /\ Exit(r, "navigationFailed", <<>>)
         /\ UNCHANGED gotos

\* page.goto with networkidle2 settles, lines 259-264; once a navigation has
\* succeeded the count of page.goto calls is dropped
Goto1Done(r, ok) ==
  /\ pc[r] = "goto1"
  /\ ok => Usable(r)
  /\ IF ok THEN Stay(r, "extract", <<"extract">>) /\ gotos' = [gotos EXCEPT ![r] = 0]
           ELSE GotoRejected(r, "networkidle2")
  /\ UNCHANGED <<connVars, attempt, b, page, attempts, sawExhaust>>
  /\ UNCHANGED <<response, pageVars>>

\* page.goto with load settles, lines 264-267
Goto2Done(r, ok) ==
  /\ pc[r] = "goto2"
  /\ ok => Usable(r)
  /\ IF ok THEN Stay(r, "extract", <<"extract">>) /\ gotos' = [gotos EXCEPT ![r] = 0]
           ELSE GotoRejected(r, "load")
  /\ UNCHANGED <<connVars, attempt, b, page, attempts, sawExhaust>>
  /\ UNCHANGED <<response, pageVars>>

\* the settle delay, waitForSelector and extractMovesFromPage settle, lines
\* 271-283: with "moves" the PGN is built and returned, lines 291-299; with
\* "empty" page.content() is awaited, line 286; or one of them rejects ("throw")
ExtractDone(r, res) ==
  /\ pc[r] = "extract"
  /\ res # "throw" => Usable(r)
  /\ CASE res = "moves" -> Exit(r, "pgn", <<"assemble">>)
       [] res = "empty" -> Stay(r, "content", <<>>)
       [] OTHER -> Exit(r, "extractError", <<>>)
  /\ UNCHANGED <<connVars, attempt, b, page, attempts, sawExhaust>>
  /\ UNCHANGED <<response, gotos, pageVars>>

\* no moves: page.content() settles, lines 286-288
ContentDone(r, ok) ==
  /\ pc[r] = "content"
  /\ ok => Usable(r)
  /\ IF ok THEN Exit(r, "null", <<>>) ELSE Exit(r, "contentError", <<>>)
  /\ UNCHANGED <<connVars, attempt, b, page, attempts, sawExhaust>>
  /\ UNCHANGED <<response, gotos, pageVars>>

\* page.close() settles, lines 302-306; a rejection is caught and logged
CloseDone(r, ok) ==
  /\ pc[r] = "closing"
  /\ ok => Usable(r)
  /\ page' = [page EXCEPT ![r] = IF ok THEN "closed" ELSE "closeFailed"]
  /\ outcome' = [outcome EXCEPT ![r] = IF ok THEN @ ELSE closeCatch(@)]
  /\ RunFinally(r, AfterClose(finallyBlock(page[r])), "done", <<"close">>)
  /\ b' = [b EXCEPT ![r] = NULL]
  /\ UNCHANGED <<connVars, attempt, attempts, sawExhaust>>
  /\ UNCHANGED <<response, gotos, pageVars>>

\* POST /fetch-pgn without a url, lines 315-317: answered at once
Reject(r) ==
  /\ pc[r] = "idle"
  /\ \A x \in Reqs : x < r => pc[x] # "idle"
  /\ pc' = [pc EXCEPT ![r] = "answered"]
  /\ response' = [response EXCEPT ![r] = 400]
  /\ UNCHANGED <<gateVars, connVars, attempt, b, page, outcome, histVars, pageVars>>

\* await getPgn() resumes and the handler writes its answer, lines 320-329;
\* getPgn's result and the locals of the request are used no more
Respond(r) ==
  /\ pc[r] = "done"
  /\ pc' = [pc EXCEPT ![r] = "answered"]
  /\ response' = [response EXCEPT ![r] = Classify(outcome[r])]
  /\ attempt' = [attempt EXCEPT ![r] = 0]
  /\ b' = [b EXCEPT ![r] = NULL]
  /\ page' = [page EXCEPT ![r] = "null"]
  /\ outcome' = [outcome EXCEPT ![r] = "none"]
  /\ trace' = [trace EXCEPT ![r] = <<>>]
  /\ releases' = [releases EXCEPT ![r] = 0]
  /\ attempts' = [attempts EXCEPT ![r] = 0]
  /\ gotos' = [gotos EXCEPT ![r] = 0]
  /\ sawExhaust' = [sawExhaust EXCEPT ![r] = FALSE]
  /\ UNCHANGED <<gateVars, connVars, waitOrder, pageVars>>

\* the handler returns, line 331: the request is over.  The answer is written
\* and the handler returns in one synchronous run.
Return(r) ==
  /\ pc[r] = "answered"
  /\ pc' = [pc EXCEPT ![r] = "idle"]
  /\ response' = [response EXCEPT ![r] = NoResponse]
  /\ UNCHANGED <<gateVars, connVars, attempt, b, page, outcome, histVars, pageVars>>

\* ---------------------------------------------------- the remote browser
\* the connection c dies: c.isConnected() is false from now on
ConnClose(c) ==
  /\ conn[c] = "live"
  /\ Cardinality({d \in Conns : conn[d] \in {"closed", "notified"}}) < MaxCloses
  /\ conn' = [conn EXCEPT ![c] = "closed"]
  /\ UNCHANGED <<gateVars, browser, connecting, pc, attempt, b,
                 page, outcome, histVars>>
  /\ UNCHANGED <<response, gotos, pageVars>>

\* the "disconnected" event of c is delivered, lines 170-173
Disconnected(c) ==
  /\ conn[c] = "closed"
  /\ conn' = [conn EXCEPT ![c] = "notified"]
  /\ browser' = disconnectedHandler
  /\ UNCHANGED <<gateVars, connecting, pc, attempt, b, page,
                 outcome, trace, releases, attempts, waitOrder, sawExhaust>>
  /\ UNCHANGED <<response, gotos, pageVars>>

\* the connection c dies and its "disconnected" event is delivered in the same
\* turn of the event loop, lines 170-173: by the time any code of the server
\* runs again, c.isConnected() is false and the handler has run
ConnLost(c) ==
  /\ conn[c] = "live"
  /\ Cardinality({d \in Conns : conn[d] \in {"closed", "notified"}}) < MaxCloses
  /\ conn' = [conn EXCEPT ![c] = "notified"]
  /\ browser' = disconnectedHandler
  /\ UNCHANGED <<gateVars, connecting, pc, attempt, b, page,
                 outcome, response, histVars, pageVars>>

\* A request at "connected" (await connectBrowser() settled), "granted" (await
\* acquireSlot() settled) or "done" (await getPgn() settled) resumes in a promise
\* job of the current turn of the event loop, and one at "answered" is in the
\* middle of a synchronous run: no timer, no I/O event and no new request is
\* handled before it has run on to its next suspension.
Ready == \A r \in Reqs : pc[r] \notin {"connected", "granted", "done", "answered"}

ExtractResults == {"moves", "empty", "throw"}
Urls == {"valid", "invalid"}

Next ==
  \/ \E r \in Reqs : Respond(r)
  \/ \E r \in Reqs : Return(r)
  \/ Ready /\ \E r \in 1..NumReqs : Reject(r)
  \/ Ready /\ \E r \in 1..NumReqs : Start(r)
  \/ Ready /\ \E r \in Reqs : PollTimer(r)
  \/ Ready /\ \E r \in Reqs : ConnectOk(r)
  \/ Ready /\ \E r \in Reqs : ConnectFail(r)
  \/ Ready /\ \E r \in Reqs : BackoffTimer(r)
  \/ \E r \in Reqs : Acquire(r)
  \/ \E r \in Reqs : OpenPage(r)
  \/ Ready /\ \E r \in Reqs, ok \in BOOLEAN : NewPageDone(r, ok)
  \/ Ready /\ \E r \in Reqs, ok \in BOOLEAN, u \in Urls : SetupDone(r, ok, u)
  \/ Ready /\ \E r \in Reqs, ok \in BOOLEAN : Goto1Done(r, ok)
  \/ Ready /\ \E r \in Reqs, ok \in BOOLEAN : Goto2Done(r, ok)
  \/ Ready /\ \E r \in Reqs, res \in ExtractResults : ExtractDone(r, res)
  \/ Ready /\ \E r \in Reqs, ok \in BOOLEAN : ContentDone(r, ok)
  \/ Ready /\ \E r \in Reqs, ok \in BOOLEAN : CloseDone(r, ok)
  \/ Ready /\ \E c \in Conns : ConnClose(c)
  \/ Ready /\ \E c \in Conns : Disconnected(c)

Spec == Init /\ [][Next]_vars

\* the runs in which a dying connection is always notified in the turn in
\* which it dies; every puppeteer call fails at will
NextSync ==
  \/ \E r \in Reqs : Respond(r)
  \/ \E r \in Reqs : Return(r)
  \/ Ready /\ \E r \in 1..NumReqs : Reject(r)
  \/ Ready /\ \E r \in 1..NumReqs : Start(r)
  \/ Ready /\ \E r \in Reqs : PollTimer(r)
  \/ Ready /\ \E r \in Reqs : ConnectOk(r)
  \/ Ready /\ \E r \in Reqs : ConnectFail(r)
  \/ Ready /\ \E r \in Reqs : BackoffTimer(r)
  \/ \E r \in Reqs : Acquire(r)
  \/ \E r \in Reqs : OpenPage(r)
  \/ Ready /\ \E r \in Reqs, ok \in BOOLEAN : NewPageDone(r, ok)
  \/ Ready /\ \E r \in Reqs, ok \in BOOLEAN, u \in Urls : SetupDone(r, ok, u)
  \/ Ready /\ \E r \in Reqs, ok \in BOOLEAN : Goto1Done(r, ok)
  \/ Ready /\ \E r \in Reqs, ok \in BOOLEAN : Goto2Done(r, ok)
  \/ Ready /\ \E r \in Reqs, res \in ExtractResults : ExtractDone(r, res)
  \/ Ready /\ \E r \in Reqs, ok \in BOOLEAN : ContentDone(r, ok)
  \/ Ready /\ \E r \in Reqs, ok \in BOOLEAN : CloseDone(r, ok)
  \/ Ready /\ \E c \in Conns : ConnLost(c)

SpecSync == Init /\ [][NextSync]_vars

\* the runs in which the remote browser stays up: every puppeteer.connect
\* resolves and no connection dies; page operations still fail at will
NextGate ==
  \/ \E r \in Reqs : Respond(r)
  \/ \E r \in Reqs : Return(r)
  \/ Ready /\ \E r \in 1..NumGateReqs : Start(r)
  \/ Ready /\ \E r \in Reqs : PollTimer(r)
  \/ Ready /\ \E r \in Reqs : ConnectOk(r)
  \/ \E r \in Reqs : Acquire(r)
  \/ \E r \in Reqs : OpenPage(r)
  \/ Ready /\ \E r \in Reqs, ok \in BOOLEAN : NewPageDone(r, ok)
  \/ Ready /\ \E r \in Reqs, ok \in BOOLEAN, u \in Urls : SetupDone(r, ok, u)
  \/ Ready /\ \E r \in Reqs, ok \in BOOLEAN : Goto1Done(r, ok)
  \/ Ready /\ \E r \in Reqs, ok \in BOOLEAN : Goto2Done(r, ok)
  \/ Ready /\ \E r \in Reqs, res \in ExtractResults : ExtractDone(r, res)
  \/ Ready /\ \E r \in Reqs, ok \in BOOLEAN : ContentDone(r, ok)
  \/ Ready /\ \E r \in Reqs, ok \in BOOLEAN : CloseDone(r, ok)

SpecGate == Init /\ [][NextGate]_vars

\* the runs in which the remote browser stays up and the target site answers:
\* every puppeteer call resolves and the page holds moves
NextFair ==
  \/ \E r \in Reqs : Respond(r)
  \/ \E r \in Reqs : Return(r)
  \/ Ready /\ \E r \in 1..NumFairReqs : Start(r)
  \/ Ready /\ \E r \in Reqs : PollTimer(r)
  \/ Ready /\ \E r \in Reqs : ConnectOk(r)
  \/ \E r \in Reqs : Acquire(r)
  \/ \E r \in Reqs : OpenPage(r)
  \/ Ready /\ \E r \in Reqs : NewPageDone(r, TRUE)
  \/ Ready /\ \E r \in Reqs : SetupDone(r, TRUE, "valid")
  \/ Ready /\ \E r \in Reqs : Goto1Done(r, TRUE)
  \/ Ready /\ \E r \in Reqs : ExtractDone(r, "moves")
  \/ Ready /\ \E r \in Reqs : CloseDone(r, TRUE)

\* The promise jobs of request r: the continuations of await connectBrowser(),
\* await acquireSlot() and await getPgn(), and the rest of the handler's run.
\* Node runs every queued promise job.
Jobs(r) == Respond(r) \/ Return(r) \/ Acquire(r) \/ OpenPage(r)

\* The work of request r while it holds a slot: each puppeteer call it awaits
\* settles, and r runs on.
HolderWork(r) ==
  Ready /\ \/ NewPageDone(r, TRUE)
           \/ SetupDone(r, TRUE, "valid")
           \/ Goto1Done(r, TRUE)
           \/ ExtractDone(r, "moves")
           \/ CloseDone(r, TRUE)

\* every promise job is run and every call awaited by a slot holder settles at
\* last; requests arrive, or stop arriving, at will
SpecFair ==
  /\ Init /\ [][NextFair]_vars
  /\ \A r \in Reqs : WF_vars(Jobs(r)) /\ SF_vars(HolderWork(r))

\* the runs in which every page operation over a live connection resolves and
\* finds moves (the target site is up): what fails is the browser connection
NextConn ==
  \/ \E r \in Reqs : Respond(r)
  \/ \E r \in Reqs : Return(r)
  \/ Ready /\ \E r \in 1..NumReqs : Start(r)
  \/ Ready /\ \E r \in Reqs : PollTimer(r)
  \/ Ready /\ \E r \in Reqs : ConnectOk(r)
  \/ Ready /\ \E r \in Reqs : ConnectFail(r)
  \/ Ready /\ \E r \in Reqs : BackoffTimer(r)
  \/ \E r \in Reqs : Acquire(r)
  \/ \E r \in Reqs : OpenPage(r)
  \/ Ready /\ \E r \in Reqs : NewPageDone(r, Usable(r))
  \/ Ready /\ \E r \in Reqs : SetupDone(r, Usable(r), "valid")
  \/ Ready /\ \E r \in Reqs : Goto1Done(r, Usable(r))
  \/ Ready /\ \E r \in Reqs : Goto2Done(r, Usable(r))
  \/ Ready /\ \E r \in Reqs : ExtractDone(r, IF Usable(r) THEN "moves" ELSE "throw")
  \/ Ready /\ \E r \in Reqs : CloseDone(r, Usable(r))
  \/ Ready /\ \E c \in Conns : ConnClose(c)
  \/ Ready /\ \E c \in Conns : Disconnected(c)

SpecConn == Init /\ [][NextConn]_vars

\* the runs in which more requests are in flight than the gate has slots, every
\* puppeteer.connect resolves, the connection may die (notified at once), and
\* page operations fail only when their connection is dead
NextQueue ==
  \/ \E r \in Reqs : Respond(r)
  \/ \E r \in Reqs : Return(r)
  \/ Ready /\ \E r \in 1..NumQueueReqs : Start(r)
  \/ Ready /\ \E r \in Reqs : PollTimer(r)
  \/ Ready /\ \E r \in Reqs : ConnectOk(r)
  \/ \E r \in Reqs : Acquire(r)
  \/ \E r \in Reqs : OpenPage(r)
  \/ Ready /\ \E r \in Reqs : NewPageDone(r, Usable(r))
  \/ Ready /\ \E r \in Reqs : SetupDone(r, Usable(r), "valid")
  \/ Ready /\ \E r \in Reqs : Goto1Done(r, Usable(r))
  \/ Ready /\ \E r \in Reqs : Goto2Done(r, Usable(r))
  \/ Ready /\ \E r \in Reqs : ExtractDone(r, IF Usable(r) THEN "moves" ELSE "throw")
  \/ Ready /\ \E r \in Reqs : CloseDone(r, Usable(r))
  \/ Ready /\ \E c \in Conns : ConnLost(c)

SpecQueue == Init /\ [][NextQueue]_vars

\* ------------------------------------------- extraction and PGN building
\* line 210-215
selectorsToTry == <<".main-line-row", ".move-row", ".move-list .move", ".moves .move">>

\* A row element matched by a selector, as lines 223-226 see it: whether it
\* holds a non-empty white move text, and a non-empty black one.
Rows == [white : BOOLEAN, black : BOOLEAN]

\* the sequences over S of length at most n
RECURSIVE SeqsUpTo(_, _)
SeqsUpTo(S, n) ==
  IF n = 0 THEN {<<>>}
  ELSE LET shorter == SeqsUpTo(S, n - 1) IN
       shorter \cup {Append(q, x) : q \in {t \in shorter : Len(t) = n - 1}, x \in S}

\* for the first k selectors, the rows each matches: at most n rows in all
RECURSIVE Matches(_, _)
Matches(k, n) ==
  IF k = 0 THEN {<<>>}
  ELSE UNION {{Append(m, rs) : m \in Matches(k - 1, n - Len(rs))} :
                rs \in SeqsUpTo(Rows, n)}

RECURSIVE Sum(_)
Sum(q) == IF q = <<>> THEN 0 ELSE Head(q) + Sum(Tail(q))

\* the documents: what each selector of selectorsToTry matches, and for each
\* element matched by [class*='move'] whether its trimmed text is non-empty
Doms ==
  UNION {{[rows |-> m, generic |-> g] :
            g \in SeqsUpTo(BOOLEAN, MaxNodes - Sum([i \in 1..Len(m) |-> Len(m[i])]))} :
          m \in Matches(Len(selectorsToTry), MaxNodes)}

\* lines 222-228: the texts taken from the rows matched by selector i
RECURSIVE flatMapRows(_, _, _)
flatMapRows(i, rows, j) ==
  IF j > Len(rows) THEN <<>>
  ELSE (IF rows[j].white THEN <<<<selectorsToTry[i], j, "white">>>> ELSE <<>>)
       \o (IF rows[j].black THEN <<<<selectorsToTry[i], j, "black">>>> ELSE <<>>)
       \o flatMapRows(i, rows, j + 1)

\* lines 235-238: the non-empty texts of the elements [class*='move'] matches
RECURSIVE fallbackMoves(_, _)
fallbackMoves(g, j) ==
  IF j > Len(g) THEN <<>>
  ELSE (IF g[j] THEN <<<<"[class*='move']", j, "text">>>> ELSE <<>>)
       \o fallbackMoves(g, j + 1)

\* lines 218 and 230: the selector matched elements and they gave moves
SelectorHit_noMovesTest(found, mv) == Len(found) > 0
SelectorHit(found, mv) == Len(found) > 0 /\ Len(mv) > 0

\* lines 216-239: the loop from selector i on, then the last resort
RECURSIVE trySelectors(_, _)
trySelectors(d, i) ==
  IF i > Len(selectorsToTry) THEN fallbackMoves(d.generic, 1)
  ELSE LET found == d.rows[i]
           mv == flatMapRows(i, found, 1)
       IN IF SelectorHit(found, mv) THEN mv ELSE trySelectors(d, i + 1)

extractMovesFromPage(d) == trySelectors(d, 1)

\* line 294: Math.floor(i / 2) + 1
moveNumber_noHalving(i) == i + 1
moveNumber(i) == (i \div 2) + 1

\* moves[i] || "", lines 295-296 (i counts from 0)
MoveAt(mv, i) == IF i < Len(mv) THEN mv[i + 1] ELSE ""

\* a string as the pieces it adds to a concatenation: the empty string adds none
Piece(str) == IF str = "" THEN <<>> ELSE <<str>>

\* line 297: `${moveNumber}. ${white} ${black} `
PairText(n, white, black) ==
  <<ToString(n), ".", " ">> \o Piece(white) \o <<" ">> \o Piece(black) \o <<" ">>

\* lines 293-298: the loop from index i on
RECURSIVE buildPgn(_, _, _)
buildPgn(mv, i, acc) ==
  IF i < Len(mv)
    THEN buildPgn(mv, i + 2,
                  acc \o PairText(moveNumber(i), MoveAt(mv, i), MoveAt(mv, i + 1)))
    ELSE acc

\* String.prototype.trim, line 299, on a text that begins with a digit
RECURSIVE trim(_)
trim(t) ==
  IF t # <<>> /\ t[Len(t)] = " " THEN trim(SubSeq(t, 1, Len(t) - 1)) ELSE t

\* line 283: extractMovesFromPage(page) resolves
ExtractMoves ==
  /\ stage = "loaded"
  /\ moves' = extractMovesFromPage(dom)
  /\ stage' = "extracted"
  /\ UNCHANGED <<gateVars, connVars, pc, attempt, b, page, outcome, response,
                 histVars, dom, pgn>>

\* lines 284-288: no moves, getPgn returns null
ReturnNull ==
  /\ stage = "extracted"
  /\ Len(moves) = 0
  /\ stage' = "null"
  /\ UNCHANGED <<gateVars, connVars, pc, attempt, b, page, outcome, response,
                 histVars, dom, moves, pgn>>

\* lines 291-299: the PGN is built and returned
BuildPgn ==
  /\ stage = "extracted"
  /\ Len(moves) # 0
  /\ pgn' = trim(buildPgn(moves, 0, <<>>))
  /\ stage' = "pgn"
  /\ UNCHANGED <<gateVars, connVars, pc, attempt, b, page, outcome, response,
                 histVars, dom, moves>>

\* extractMovesFromPage on every document of Doms
InitExtract ==
  /\ InitServer
  /\ dom \in Doms
  /\ moves = <<>>
  /\ pgn = <<>>
  /\ stage = "loaded"

NextExtract == ExtractMoves

SpecExtract == InitExtract /\ [][NextExtract]_vars

\* the move texts of the lists handed to the PGN builder
MoveTexts == {"e4", "e5", "Nf3"}

\* lines 284-299 on every move list of at most MaxMoves texts
InitBuild ==
  /\ InitServer
  /\ dom = <<>>
  /\ moves \in SeqsUpTo(MoveTexts, MaxMoves)
  /\ pgn = <<>>
  /\ stage = "extracted"

NextBuild ==
  \/ ReturnNull
  \/ BuildPgn

SpecBuild == InitBuild /\ [][NextBuild]_vars

\* ======================================================= the properties

\* the requests that have been granted a slot and have not released it
Holders == {r \in Reqs : Has(trace[r], "acquire") /\ releases[r] = 0}

\* some request calls releaseSlot in this step
SomeRelease == \E x \in Reqs : releases'[x] = releases[x] + 1

\* C1: in every reachable state the counter `current`, and the number of
\* requests that hold a granted and unreleased slot, are at most
\* MAX_CONCURRENT_PAGES.
C1_SlotsNeverExceedMax ==
  /\ current <= MAX_CONCURRENT_PAGES
  /\ Cardinality(Holders) <= MAX_CONCURRENT_PAGES

\* the gate is full, a caller is suspended, and a waiter has just been handed
\* the slot of a finished request
C1_Witness ==
  /\ current = MAX_CONCURRENT_PAGES
  /\ Cardinality(Holders) = MAX_CONCURRENT_PAGES
  /\ queue # <<>>
  /\ \E r \in Reqs : pc[r] = "granted"

\* C3: a suspended caller leaves the queue only as the earliest caller still
\* waiting, and no caller is granted a slot at its call while an earlier caller
\* is still waiting.
C3_WaitersServedInArrivalOrder ==
  [][\A r \in Reqs :
       /\ (pc[r] = "waitSlot" /\ pc'[r] # "waitSlot") => r = Head(waitOrder)
       /\ (pc[r] = "connected" /\ pc'[r] = "granted") => waitOrder = <<>>]_vars

\* a release has resumed the first of at least two waiters: the later ones are
\* still suspended behind it
C3_Witness ==
  \E r \in Reqs :
    /\ pc[r] = "granted"
    /\ Len(waitOrder) >= 1
    /\ \A w \in Reqs : Has(waitOrder, w) => pc[w] = "waitSlot" /\ w # r

\* C4: a call of acquireSlot is suspended exactly when MAX_CONCURRENT_PAGES
\* slots are granted and unreleased; callers are suspended only while the gate
\* is full; and a suspended caller stays suspended until a step that calls
\* releaseSlot, which grants it the slot.
C4_SuspendedIffFull ==
  /\ [](waitOrder # <<>> => Cardinality(Holders) = MAX_CONCURRENT_PAGES)
  /\ [][\A r \in Reqs :
          /\ (pc[r] = "connected" /\ pc'[r] # "connected")
               => /\ pc'[r] \in {"granted", "waitSlot"}
                  /\ pc'[r] = "waitSlot"
                       <=> Cardinality(Holders) = MAX_CONCURRENT_PAGES
          /\ (pc[r] = "waitSlot" /\ pc'[r] # "waitSlot")
               => pc'[r] = "granted" /\ SomeRelease]_vars

\* MAX_CONCURRENT_PAGES + 1 acquisitions and no release: exactly one waiter
C4_Witness ==
  /\ Cardinality(Holders) = MAX_CONCURRENT_PAGES
  /\ Len(waitOrder) = 1
  /\ \A r \in Reqs : releases[r] = 0 /\ pc[r] \notin {"idle", "done"}

\* C2: a getPgn call that was granted a slot has called releaseSlot exactly once
\* when it settles, whatever made it leave its try block and whether page.close
\* resolved or rejected; a call that failed in connectBrowser was granted no
\* slot and has called releaseSlot zero times; no call releases twice.
C2_ReleasedExactlyOnce ==
  \A r \in Reqs :
    /\ releases[r] <= 1
    /\ pc[r] = "done" =>
         /\ Has(trace[r], "acquire") => releases[r] = 1
         /\ outcome[r] = "connectError" <=> ~Has(trace[r], "acquire")
         /\ outcome[r] = "connectError" => releases[r] = 0

\* a call whose navigation failed and whose page.close rejected has released
\* its slot once
C2_Witness ==
  \E r \in Reqs :
    /\ pc[r] = "done"
    /\ outcome[r] = "navigationFailed"
    /\ page[r] = "closeFailed"
    /\ releases[r] = 1

\* position of a step in StepOrder
Rank(st) == CHOOSE i \in 1..Len(StepOrder) : StepOrder[i] = st

\* C10: the steps a request has performed are in the order connect, acquire,
\* open, navigate, extract, assemble, close, release: a page is opened only
\* after the slot was granted, a slot is released only after the close of an
\* opened page has settled, and a request that returns a PGN has taken all
\* eight steps.
C10_StepsInOrder ==
  \A r \in Reqs :
    /\ \A i, j \in 1..Len(trace[r]) :
         i < j => Rank(trace[r][i]) < Rank(trace[r][j])
    /\ Has(trace[r], "acquire") => Has(trace[r], "connect")
    /\ Has(trace[r], "open") => Has(trace[r], "acquire")
    /\ Has(trace[r], "open") /\ Has(trace[r], "release") => Has(trace[r], "close")
    /\ page[r] = "open" => Has(trace[r], "open") /\ ~Has(trace[r], "release")
    /\ pc[r] = "done" /\ outcome[r] = "pgn" => trace[r] = StepOrder

\* a request has returned a PGN
C10_Witness ==
  \E r \in Reqs : pc[r] = "done" /\ outcome[r] = "pgn" /\ trace[r] = StepOrder

\* the connections whose isConnected() is true
Live == {c \in Conns : conn[c] = "live"}

\* the callers inside the retry loop of connectBrowser, lines 158-185
Connectors == {r \in Reqs : pc[r] \in {"connectAttempt", "backoff"}}

\* C5: at most one connection is connected at any time.
C5_AtMostOneLiveConnection == Cardinality(Live) <= 1

\* C6: at most one caller is inside the retry loop (a puppeteer.connect in
\* flight, or the backoff sleep between two of them), `connecting` is set while
\* one is, and a caller leaves the polling loop only when `connecting` is
\* clear, to return a connected browser or to become that one connector.
C6_SingleConnector ==
  /\ [](Cardinality(Connectors) <= 1 /\ (Connectors # {} => connecting))
  /\ [][\A r \in Reqs :
          (pc[r] = "waitConn" /\ pc'[r] # "waitConn")
            => /\ ~connecting
               /\ \/ pc'[r] = "connected" /\ browser # NULL /\ conn[browser] = "live"
                  \/ pc'[r] = "connectAttempt" /\ connecting' /\ Connectors = {}]_vars

\* a caller that waited through a failed connect is now the connector, and
\* another caller waits on it
C6_Witness ==
  \E r, w \in Reqs :
    /\ pc[r] = "connectAttempt" /\ sawExhaust[r]
    /\ pc[w] = "waitConn"

\* C7 as stated: a caller that was waiting on `connecting` when the connector
\* exhausted its retries fails with the connection error, so it never gets a
\* connection from that call.
C7_WaitersFailWithTheConnector ==
  \A r \in Reqs : sawExhaust[r] => pc[r] # "connected"

\* C7 as amended: the error of an exhausted connector reaches its own caller
\* only.  A caller that was waiting at that moment goes on polling, returns a
\* connection or becomes the next connector, and fails with the connection
\* error only after `retries` attempts of its own.
C7_WaitersRetryThemselves ==
  \A r \in Reqs :
    sawExhaust[r] =>
      /\ pc[r] \in {"waitConn", "connectAttempt", "backoff", "connected", "done"}
      /\ pc[r] = "waitConn" => outcome[r] = "none" /\ attempts[r] = 0
      /\ pc[r] = "done" => outcome[r] = "connectError" /\ attempts[r] = retries

\* a caller that was waiting when the connector gave up has connected itself
C7_Witness ==
  \E r \in Reqs : sawExhaust[r] /\ pc[r] = "connected" /\ browser # NULL

\* C8: a call fails with the connection error after exactly `retries` calls of
\* puppeteer.connect, never makes more, and `connecting` is clear when it fails.
C8_ExactlyRetriesAttempts ==
  \A r \in Reqs :
    /\ attempts[r] <= retries
    /\ attempts[r] = attempt[r]
    /\ (pc[r] = "done" /\ outcome[r] = "connectError")
         => attempts[r] = retries /\ ~connecting /\ Connectors = {}
    /\ pc[r] \in {"connectAttempt", "backoff"} => attempts[r] >= 1

\* a call has failed after its third attempt; the flag is clear
C8_Witness ==
  \E r \in Reqs :
    /\ pc[r] = "done" /\ outcome[r] = "connectError"
    /\ attempts[r] = retries /\ ~connecting

\* C9: the "disconnected" handler leaves browser null; a connectBrowser call
\* never returns a browser that is null or not connected; and a call that finds
\* browser null or not connected starts a fresh attempt, or waits for the one in
\* progress.
C9_FreshConnectAfterDisconnect ==
  [][/\ \A c \in Conns :
          (conn[c] = "closed" /\ conn'[c] = "notified") => browser' = NULL
     /\ \A r \in Reqs :
          /\ (pc[r] # "connected" /\ pc'[r] = "connected")
               => browser' # NULL /\ conn'[browser'] = "live"
          /\ (pc[r] = "idle" /\ pc'[r] # "idle"
                /\ (browser = NULL \/ conn[browser] # "live"))
               => IF connecting THEN pc'[r] = "waitConn"
                  ELSE pc'[r] = "connectAttempt" /\ attempts'[r] = 1]_vars

\* the connection was notified dead, browser is null, and a later call is in
\* its first attempt
C9_Witness ==
  /\ browser = NULL
  /\ \E c \in Conns : conn[c] = "notified"
  /\ \E r \in Reqs : pc[r] = "connectAttempt" /\ attempts[r] = 1

\* the handler answers request r in this step: await getPgn() has settled with
\* `out` and the status is written
Answers(r, out) == pc[r] = "done" /\ outcome[r] = out /\ pc'[r] = "answered"

\* C11: a request whose connectBrowser call exhausted its retries is answered
\* with the upstream-failure status 502, the status of a navigation failure.
C11_ConnectionFailureIsUpstream ==
  [][\A r \in Reqs : Answers(r, "connectError") => response'[r] = 502]_vars

\* C12: a request whose url is present but does not start with http:// or
\* https:// is answered with the bad-request status 400, as a request without a
\* url is.
C12_MalformedUrlIsBadRequest ==
  [][\A r \in Reqs : Answers(r, "invalidUrl") => response'[r] = 400]_vars

\* C13: a request calls page.goto at most twice, the second time only when the
\* first call (networkidle2) has rejected; "Navigation failed" is thrown only
\* when the second call (load) has rejected too; and such a request is answered
\* 502 after page.close() was called on its page and its slot was released.
C13_NavigationRetriedOnce ==
  /\ [](\A r \in Reqs :
          /\ gotos[r] <= 2
          /\ pc[r] = "goto1" => gotos[r] = 1
          /\ pc[r] = "goto2" => gotos[r] = 2
          /\ outcome[r] = "navigationFailed" => gotos[r] = 2)
  /\ [][\A r \in Reqs :
          /\ gotos'[r] > gotos[r] =>
                \/ gotos[r] = 0 /\ pc[r] = "setup" /\ pc'[r] = "goto1"
                \/ gotos[r] = 1 /\ pc[r] = "goto1" /\ pc'[r] = "goto2"
          /\ (outcome[r] # "navigationFailed" /\ outcome'[r] = "navigationFailed")
                => pc[r] = "goto2"
          /\ Answers(r, "navigationFailed") =>
                /\ response'[r] = 502
                /\ Has(trace[r], "close")
                /\ page[r] \in {"closed", "closeFailed"}
                /\ releases[r] = 1]_vars

\* a request has been answered 502
C13_Witness ==
  \E r \in Reqs : pc[r] = "answered" /\ response[r] = 502

\* C14: a request that opened a page has called page.close() on it by the time
\* getPgn settles, however it left its try block; and a rejection of
\* page.close() changes neither the result or error getPgn ends with nor the
\* release of the slot.
C14_PageAlwaysClosed ==
  /\ [](\A r \in Reqs :
          /\ (pc[r] = "done" /\ Has(trace[r], "open"))
                => Has(trace[r], "close") /\ page[r] \in {"closed", "closeFailed"}
          /\ page[r] = "open" => pc[r] \notin {"done", "answered", "idle"}
          /\ page[r] = "closeFailed" => releases[r] = 1)
  /\ [][\A r \in Reqs :
          (pc[r] = "closing" /\ pc'[r] # "closing")
            => /\ pc'[r] = "done"
               /\ outcome'[r] = outcome[r]
               /\ releases[r] = 0 /\ releases'[r] = 1]_vars

\* a request that had built its PGN met a rejected page.close(): it still
\* returns the PGN and has released its slot
C14_Witness ==
  \E r \in Reqs :
    /\ pc[r] = "done" /\ page[r] = "closeFailed"
    /\ outcome[r] = "pgn" /\ releases[r] = 1

\* C15: a request whose extraction found no moves ends getPgn with the null
\* result and is answered 404, never with an error status; and only a request
\* that built a PGN is answered 200.
C15_EmptyExtractionIsNotFound ==
  [][\A r \in Reqs :
       /\ (pc[r] = "content" /\ pc'[r] # "content") => outcome'[r] = "null"
       /\ Answers(r, "null") => response'[r] = 404
       /\ (pc[r] = "done" /\ pc'[r] = "answered" /\ response'[r] = 200)
            => outcome[r] = "pgn"]_vars

\* the number of move texts the rows hold
TextCount(rows) ==
  Cardinality({x \in (1..Len(rows)) \X {"white", "black"} :
                 rows[x[1]][x[2]]})

\* the listed selectors whose rows hold at least one move text
Yielding == {i \in 1..Len(selectorsToTry) : TextCount(dom.rows[i]) > 0}

\* the texts of mv come from selector sel, each row before the next and white
\* before black
TakenFrom(mv, sel) ==
  /\ \A j \in 1..Len(mv) : mv[j][1] = sel
  /\ \A i, j \in 1..Len(mv) :
       i < j => \/ mv[i][2] < mv[j][2]
                \/ mv[i][2] = mv[j][2] /\ mv[i][3] = "white" /\ mv[j][3] = "black"

\* C16: extractMovesFromPage returns all the texts of the first selector of
\* selectorsToTry that yields at least one, in document order, and the texts of
\* the [class*='move'] last resort only when no listed selector yields any.
C16_FirstYieldingStrategy ==
  stage = "extracted" =>
    IF Yielding # {}
      THEN LET k == CHOOSE i \in Yielding : \A j \in Yielding : i <= j IN
           /\ Len(moves) = TextCount(dom.rows[k])
           /\ TakenFrom(moves, selectorsToTry[k])
      ELSE /\ Len(moves) = Cardinality({j \in 1..Len(dom.generic) : dom.generic[j]})
           /\ \A j \in 1..Len(moves) : moves[j][1] = "[class*='move']"
           /\ \A i, j \in 1..Len(moves) : i < j => moves[i][2] < moves[j][2]

\* a document matched by ".moves .move" alone among the listed selectors, and
\* by [class*='move'] too: the moves returned are those of ".moves .move"
C16_Witness ==
  /\ stage = "extracted"
  /\ \A i \in 1..Len(selectorsToTry) :
       Len(dom.rows[i]) > 0 <=> selectorsToTry[i] = ".moves .move"
  /\ \E j \in 1..Len(dom.generic) : dom.generic[j]
  /\ moves # <<>>
  /\ \A j \in 1..Len(moves) : moves[j][1] = ".moves .move"

\* C17: the PGN built from a non-empty move list T is, for k = 1, 2, ... up to
\* the number of pairs ceil(Len(T) / 2), the text "k. first second " with
\* first = T[2k-1] and second = T[2k] (counting from 1), the second move of the
\* last pair missing when T has odd length, and no white space at the end.
C17_NumberedPairs ==
  stage = "pgn" =>
    LET np == (Len(moves) + 1) \div 2
        odd == Len(moves) % 2 = 1
    IN /\ Cardinality({i \in 1..Len(pgn) : pgn[i] = "."}) = np
       /\ Len(pgn) = IF odd THEN 7 * (np - 1) + 4 ELSE 7 * np - 1
       /\ pgn[Len(pgn)] # " "
       /\ \A k \in 1..np :
            LET o == 7 * (k - 1) IN
            /\ pgn[o + 1] = ToString(k)
            /\ pgn[o + 2] = "." /\ pgn[o + 3] = " "
            /\ pgn[o + 4] = moves[2 * k - 1]
            /\ 2 * k <= Len(moves) => pgn[o + 5] = " " /\ pgn[o + 6] = moves[2 * k]
            /\ k < np => pgn[o + 7] = " "

\* a PGN was built from three moves: two pairs, the second without a black move
C17_Witness ==
  /\ stage = "pgn"
  /\ Len(moves) = 3
  /\ pgn = <<"1", ".", " ", moves[1], " ", moves[2], " ", "2", ".", " ", moves[3]>>

\* C18: if every request that holds a slot finishes its work, every caller
\* suspended in acquireSlot is granted a slot at last, however many callers
\* arrive after it.
C18_NoWaiterStarves ==
  \A r \in Reqs : (pc[r] = "waitSlot") ~> (pc[r] = "granted")

\* a waiter has been granted a slot while a caller that arrived after it is
\* still suspended
C18_Witness ==
  \E r, w \in Reqs :
    /\ pc[r] = "granted" /\ releases[r] = 0
    /\ pc[w] = "waitSlot"
    /\ current = MAX_CONCURRENT_PAGES

\* C19: `current`, the count GET /health reports, is in every state the number
\* of requests that were granted a slot and have not released it; so it is 0,
\* and the queue empty, whenever no request is between its arrival and the
\* settling of its getPgn call.
C19_CurrentCountsHolders ==
  /\ current = Cardinality(Holders)
  /\ \A w \in Reqs : Has(queue, w) <=> pc[w] = "waitSlot"
  /\ (\A r \in Reqs : pc[r] \in {"idle", "done", "answered"})
       => current = 0 /\ queue = <<>>

\* the gate was full with a caller suspended, a holder failed and its slot went
\* to the waiter: `current` is still the number of holders
C19_Witness ==
  \E r, w \in Reqs :
    /\ pc[r] = "done" /\ Thrown(outcome[r]) /\ releases[r] = 1
    /\ pc[w] = "granted" /\ w \in Holders
    /\ current = MAX_CONCURRENT_PAGES
    /\ Cardinality(Holders) = MAX_CONCURRENT_PAGES

\* C20: the connection is ensured while the request holds its slot, so a
\* request that resumes from acquireSlot opens its page on a browser that is
\* set and connected, also when it had to wait in the queue.
C20_PageOpenedOnEnsuredConnection ==
  [][\A r \in Reqs :
       (pc[r] = "granted" /\ pc'[r] # "granted")
         => browser # NULL /\ conn[browser] = "live"]_vars

====
